---- MODULE Spec2Model ----
(***************************************************************************)
(* Model of the crontab helper (src/unnamed/part_000): the field parser    *)
(* parseField and the next-run search getNextRuns.                         *)
(*                                                                         *)
(* Strings are sequences of one-character strings, so that split, includes *)
(* and parseInt are computed character by character as the JavaScript      *)
(* built-ins compute them.  A JavaScript number that may be NaN is a       *)
(* record [nan, val].                                                      *)
(***************************************************************************)
EXTENDS Integers, Sequences, FiniteSets, TLC

VARIABLES
    field,        \* parseField: the raw field string (argument `field`)
    fieldName,    \* parseField: argument `fieldName`
    pfResult,     \* parseField: what the call returned or threw
    pfPc,         \* parseField: "call" before the call, "done" after it
    parsed,       \* getNextRuns: argument `parsed`
    now,          \* getNextRuns: the instant new Date() returned
    count,        \* getNextRuns: argument `count`
    timezoneArg,  \* getNextRuns: argument `timezone`
    date,         \* getNextRuns: local `date`, the next candidate minute
    cand,         \* getNextRuns: the candidate the last iteration examined
    runs,         \* getNextRuns: local `runs`
    iterations,   \* getNextRuns: local `iterations`
    grPc,         \* getNextRuns: "idle", "loop" or "returned"
    exprIn,       \* normalizeExpression / parseCronExpression: argument expr
    normOut,      \* normalizeExpression(exprIn)
    normTwice,    \* normalizeExpression(normOut)
    cronOut,      \* parseCronExpression(exprIn): returned or thrown
    cronPc,       \* "idle", "call", "normalized", "twice" or "parsed"
    cronInput,    \* the value of the #cron-input element
    currentParsed,\* `let currentParsed`: null or the last parsed schedule
    dom,          \* which elements are hidden, and the error text shown
    timezone,     \* the value of the #timezone-select element
    updated,      \* the last updateResults call: its argument and outcome
    uiPc,         \* "idle", "loading" before DOMContentLoaded, then "ready"
    checks,       \* chmod helper: the twelve checkboxes, argument `c`
    octalRaw,     \* chmod helper: the string handed to parseOctal
    octalParsed,  \* chmod helper: what parseOctal returned or threw
    chmodPc,      \* "idle", "checks", "typed", "computed", "parsed", "parsedTyped"
    ipInput,      \* IP lookup: the value of #ip-lookup-input
    ipLookups,    \* IP lookup: the lookup() calls in their order of start
    ipDom,        \* IP lookup: loading, error and result elements
    ipUrl,        \* IP lookup: the ip parameter of the page's URL
    ipTimers,     \* IP lookup: the paste timers not yet fired
    ipPc          \* "idle", "loading" before DOMContentLoaded, then "ready"

parseVars == <<field, fieldName, pfResult, pfPc>>
runVars   == <<parsed, now, count, timezoneArg, date, cand, runs, iterations,
               grPc>>
cronVars  == <<exprIn, normOut, normTwice, cronOut, cronPc>>
uiVars    == <<cronInput, currentParsed, dom, timezone, updated, uiPc>>
chmodVars == <<checks, octalRaw, octalParsed, chmodPc>>
ipVars    == <<ipInput, ipLookups, ipDom, ipUrl, ipTimers, ipPc>>
vars      == <<field, fieldName, pfResult, pfPc,
               parsed, now, count, timezoneArg, date, cand, runs, iterations,
               grPc,
               exprIn, normOut, normTwice, cronOut, cronPc,
               cronInput, currentParsed, dom, timezone, updated, uiPc,
               checks, octalRaw, octalParsed, chmodPc,
               ipInput, ipLookups, ipDom, ipUrl, ipTimers, ipPc>>

-----------------------------------------------------------------------------
(* Bounds of the model *)

\* longest raw field string given to parseField
MaxLen == 4

\* the characters raw field strings are made of
Alphabet == {"*", ",", "/", "-", "0", "1", "7", "a"}

-----------------------------------------------------------------------------
(* Constants of the program *)

FIELD_NAMES == <<"minute", "hour", "dayOfMonth", "month", "dayOfWeek">>

FIELD_RANGES ==
    [ minute     |-> [min |-> 0, max |-> 59],
      hour       |-> [min |-> 0, max |-> 23],
      dayOfMonth |-> [min |-> 1, max |-> 31],
      month      |-> [min |-> 1, max |-> 12],
      dayOfWeek  |-> [min |-> 0, max |-> 7] ]

-----------------------------------------------------------------------------
(* JavaScript built-ins used by the parser *)

Digits == <<"0", "1", "2", "3", "4", "5", "6", "7", "8", "9">>

IsDigit(c) == \E i \in 1..10 : Digits[i] = c

DigitVal(c) == (CHOOSE i \in 1..10 : Digits[i] = c) - 1

WhiteSpace == {" "}

\* a number, and the not-a-number value
Num(n) == [nan |-> FALSE, val |-> n]
NaN    == [nan |-> TRUE,  val |-> 0]

isNaN(x) == x.nan

\* String.prototype.includes for a one-character needle
includes(s, c) == \E i \in 1..Len(s) : s[i] = c

\* Array.prototype.includes
arrIncludes(arr, v) == \E i \in 1..Len(arr) : arr[i] = v

\* first position of c in s (0 when absent)
indexOf(s, c) ==
    IF includes(s, c)
    THEN CHOOSE i \in 1..Len(s) : s[i] = c /\ \A j \in 1..(i - 1) : s[j] # c
    ELSE 0

\* String.prototype.split for a one-character separator: every piece,
\* empty ones included
RECURSIVE split(_, _)
split(s, c) ==
    IF ~includes(s, c)
    THEN <<s>>
    ELSE LET i == indexOf(s, c)
         IN  <<SubSeq(s, 1, i - 1)>> \o split(SubSeq(s, i + 1, Len(s)), c)

\* destructuring [a, b] = arr : a missing element is undefined, which
\* parseInt turns into NaN exactly as it does the empty string
elemOr(arr, i) == IF i <= Len(arr) THEN arr[i] ELSE <<>>

RECURSIVE skipWhite(_)
skipWhite(s) ==
    IF s # <<>> /\ Head(s) \in WhiteSpace THEN skipWhite(Tail(s)) ELSE s

\* value of the longest prefix of decimal digits, continuing from acc
RECURSIVE digitsPrefix(_, _)
digitsPrefix(s, acc) ==
    IF s # <<>> /\ IsDigit(Head(s))
    THEN digitsPrefix(Tail(s), 10 * acc + DigitVal(Head(s)))
    ELSE acc

\* parseInt(s, 10): leading white space is skipped, then an optional sign,
\* then the longest prefix of digits; no digit at all gives NaN
parseInt(s) ==
    LET t    == skipWhite(s)
        neg  == t # <<>> /\ Head(t) = "-"
        sgn  == t # <<>> /\ Head(t) \in {"-", "+"}
        body == IF sgn THEN Tail(t) ELSE t
    IN  IF body = <<>> \/ ~IsDigit(Head(body))
        THEN NaN
        ELSE IF neg THEN Num(0 - digitsPrefix(body, 0))
                    ELSE Num(digitsPrefix(body, 0))

\* a + b and a <= b on JavaScript numbers
jsAdd(a, b) == IF a.nan \/ b.nan THEN NaN ELSE Num(a.val + b.val)
jsLeq(a, b) == ~a.nan /\ ~b.nan /\ a.val <= b.val

-----------------------------------------------------------------------------
(* parseField *)

\* the members of a finite set of integers, ascending
ascending(S) ==
    LET rank == {<<x, Cardinality({y \in S : y < x})>> : x \in S}
    IN  <<>> \o [k \in 1..Cardinality(S) |->
                    (CHOOSE p \in rank : p[2] = k - 1)[1]]

\* Set.prototype.add of every item in turn: a Set keeps its members in
\* insertion order and ignores a value it already holds
setAddAll(values, items) ==
    LET fresh == {k \in 1..Len(items) :
                    /\ ~arrIncludes(values, items[k])
                    /\ \A j \in 1..(k - 1) : items[j] # items[k]}
        order == ascending(fresh)
    IN  values \o [m \in 1..Len(order) |-> items[order[m]]]

\* the value added for i: day of week 7 is stored as 0
dowValue_raw(name, i) == i
dowValue(name, i) == IF name = "dayOfWeek" /\ i = 7 THEN 0 ELSE i

\* Array.prototype.sort((a, b) => a - b): position k holds the element
\* that k - 1 elements precede (ties kept in their order)
sortValues_unsorted(arr) == arr
sortValues(arr) ==
    LET before(i, j) == arr[i] < arr[j] \/ (arr[i] = arr[j] /\ i < j)
        rank == {<<j, Cardinality({i \in 1..Len(arr) : before(i, j)})>> :
                    j \in 1..Len(arr)}
    IN  <<>> \o [k \in 1..Len(arr) |->
                    arr[(CHOOSE p \in rank : p[2] = k - 1)[1]]]

\* what a call returns, and what it throws
Returned(values, isWildcard) ==
    [kind |-> "returned", values |-> values, isWildcard |-> isWildcard,
     template |-> "", quoted |-> <<>>, val |-> 0, field |-> "", bounds |-> <<>>]

Thrown(template, quoted, val, name, bounds) ==
    [kind |-> "threw", values |-> <<>>, isWildcard |-> FALSE,
     template |-> template, quoted |-> quoted, val |-> val, field |-> name,
     bounds |-> bounds]

\* the wildcard loop: every i of min..max in turn, 7 skipped for dayOfWeek
wildcardLoop_keep7(name) ==
    setAddAll(<<>>, ascending(FIELD_RANGES[name].min..FIELD_RANGES[name].max))
wildcardLoop(name) ==
    setAddAll(<<>>,
        ascending({i \in FIELD_RANGES[name].min..FIELD_RANGES[name].max :
                     ~(name = "dayOfWeek" /\ i = 7)}))

\* the i that `for (i = start; i <= end; i += step)` visits and that pass
\* `i >= range.min && i <= range.max`, in the order visited.  A NaN bound
\* makes the first comparison false; a NaN step ends the loop after its
\* first round.  The step is positive otherwise (line 90).
loopValues_endExcluded(start, end, step, name) ==
    LET range == FIELD_RANGES[name]
        lo    == IF start.val > range.min THEN start.val ELSE range.min
        hi    == IF end.val - 1 < range.max THEN end.val - 1 ELSE range.max
    IN  IF ~jsLeq(start, end) \/ isNaN(step) THEN <<>>
        ELSE ascending({i \in lo..hi : (i - start.val) % step.val = 0})
loopValues(start, end, step, name) ==
    LET range == FIELD_RANGES[name]
        lo    == IF start.val > range.min THEN start.val ELSE range.min
        hi    == IF end.val < range.max THEN end.val ELSE range.max
    IN  IF ~jsLeq(start, end) THEN <<>>
        ELSE IF isNaN(step)
        THEN IF start.val >= range.min /\ start.val <= range.max
             THEN <<start.val>> ELSE <<>>
        ELSE ascending({i \in lo..hi : (i - start.val) % step.val = 0})

\* the loop of the step and range branches, adding each value it keeps
expandLoop(start, end, step, name, values) ==
    LET kept == loopValues(start, end, step, name)
    IN  setAddAll(values, [k \in 1..Len(kept) |-> dowValue(name, kept[k])])

\* the test that rejects a step
stepInvalid_nanOk(step) == ~isNaN(step) /\ step.val <= 0
stepInvalid(step) == isNaN(step) \/ step.val <= 0

\* the test that rejects a single value
outOfRange_maxOnly(val, name) == val > FIELD_RANGES[name].max
outOfRange(val, name) ==
    val < FIELD_RANGES[name].min \/ val > FIELD_RANGES[name].max

\* the result of one term: either the grown set or the error thrown
Grown(values) == [threw |-> FALSE, values |-> values, error |-> Returned(<<>>, FALSE)]
Raise(error)  == [threw |-> TRUE,  values |-> <<>>,  error |-> error]

stepBranch(part, name, values) ==
    LET pieces   == split(part, "/")
        rangeStr == elemOr(pieces, 1)
        stepStr  == elemOr(pieces, 2)
        step     == parseInt(stepStr)
        range    == FIELD_RANGES[name]
        bnds     == split(rangeStr, "-")
        start    == IF rangeStr = <<"*">> THEN Num(range.min)
                    ELSE IF includes(rangeStr, "-") THEN parseInt(elemOr(bnds, 1))
                    ELSE parseInt(rangeStr)
        end      == IF rangeStr = <<"*">> THEN Num(range.max)
                    ELSE IF includes(rangeStr, "-") THEN parseInt(elemOr(bnds, 2))
                    ELSE Num(range.max)
    IN  IF stepInvalid(step)
        THEN Raise(Thrown("Invalid step value", stepStr, 0, name, <<>>))
        ELSE Grown(expandLoop(start, end, step, name, values))

rangeBranch_checked(part, name, values) ==
    LET pieces == split(part, "-")
        start  == parseInt(elemOr(pieces, 1))
        end    == parseInt(elemOr(pieces, 2))
    IN  IF isNaN(start) \/ isNaN(end)
        THEN Raise(Thrown("Invalid range", part, 0, name, <<>>))
        ELSE IF outOfRange(start.val, name) \/ outOfRange(end.val, name)
        THEN Raise(Thrown("Value out of range", <<>>, end.val, name,
                          <<FIELD_RANGES[name].min, FIELD_RANGES[name].max>>))
        ELSE Grown(expandLoop(start, end, Num(1), name, values))

rangeBranch(part, name, values) ==
    LET pieces == split(part, "-")
        start  == parseInt(elemOr(pieces, 1))
        end    == parseInt(elemOr(pieces, 2))
    IN  IF isNaN(start) \/ isNaN(end)
        THEN Raise(Thrown("Invalid range", part, 0, name, <<>>))
        ELSE Grown(expandLoop(start, end, Num(1), name, values))

singleBranch(part, name, values) ==
    LET val == parseInt(part)
    IN  IF isNaN(val)
        THEN Raise(Thrown("Invalid value", part, 0, name, <<>>))
        ELSE IF outOfRange(val.val, name)
        THEN Raise(Thrown("Value out of range", <<>>, val.val, name,
                          <<FIELD_RANGES[name].min, FIELD_RANGES[name].max>>))
        ELSE Grown(setAddAll(values, <<dowValue(name, val.val)>>))

\* the body of `for (const part of parts)`
parsePart(part, name, values) ==
    IF includes(part, "/") THEN stepBranch(part, name, values)
    ELSE IF includes(part, "-") THEN rangeBranch(part, name, values)
    ELSE singleBranch(part, name, values)

\* `for (const part of parts)`, left at the first throw
RECURSIVE parseParts(_, _, _)
parseParts(parts, name, values) ==
    IF parts = <<>> THEN Grown(values)
    ELSE LET r == parsePart(Head(parts), name, values)
         IN  IF r.threw THEN r ELSE parseParts(Tail(parts), name, r.values)

\* the two return statements
wildcardReturn(name) ==
    Returned(sortValues(wildcardLoop(name)), TRUE)

listReturn_flagSet(values) == Returned(sortValues(values), TRUE)
listReturn(values) == Returned(sortValues(values), FALSE)

parseField(fld, name) ==
    IF fld = <<"*">>
    THEN wildcardReturn(name)
    ELSE LET r == parseParts(split(fld, ","), name, <<>>)
         IN  IF r.threw THEN r.error ELSE listReturn(r.values)

-----------------------------------------------------------------------------
(* Calling parseField on one raw field *)

Strings == UNION { [1..n -> Alphabet] : n \in 0..MaxLen }

\* single terms written with the numerals 0 1 5 7 10 50 70 and the steps
\* 1 2 6 15: a, a-b, */s, a/s and a-b/s
Numerals ==
    { <<"0">>, <<"1">>, <<"5">>, <<"7">>, <<"1", "0">>, <<"5", "0">>,
      <<"7", "0">> }

StepNumerals == { <<"1">>, <<"2">>, <<"6">>, <<"1", "5">> }

RangeTerms == { a \o <<"-">> \o b : a \in Numerals, b \in Numerals }

TermStrings ==
    Numerals \cup RangeTerms
    \cup { base \o <<"/">> \o st :
             base \in {<<"*">>} \cup Numerals \cup RangeTerms,
             st \in StepNumerals }

NoResult == [kind |-> "none", values |-> <<>>, isWildcard |-> FALSE,
             template |-> "", quoted |-> <<>>, val |-> 0, field |-> "",
             bounds |-> <<>>]

NoDate == [year |-> 0, month |-> 0, day |-> 0, hour |-> 0, minute |-> 0,
           second |-> 0, dow |-> 0]

RunsIdle ==
    /\ parsed = <<>>
    /\ now = NoDate
    /\ count = 0
    /\ timezoneArg = "local"
    /\ date = NoDate
    /\ cand = NoDate
    /\ runs = <<>>
    /\ iterations = 0
    /\ grPc = "idle"

ParseIdle ==
    /\ field = <<>>
    /\ fieldName = "minute"
    /\ pfResult = NoResult
    /\ pfPc = "idle"

NoValue == [type |-> "none", str |-> <<>>, what |-> ""]

NoCron == [kind |-> "none", parsed |-> <<>>, error |-> NoResult, got |-> 0]

CronIdle ==
    /\ exprIn = <<>>
    /\ normOut = NoValue
    /\ normTwice = NoValue
    /\ cronOut = NoCron
    /\ cronPc = "idle"

\* `let currentParsed = null`, and a schedule parseCronExpression returned
JsNull == [isNull |-> TRUE, parsed |-> <<>>]
Schedule(p) == [isNull |-> FALSE, parsed |-> p]

\* #next-runs-list as served: no run is listed
NoRuns == [of |-> JsNull, tz |-> "local"]

\* no updateResults call yet
NoUpdate == [outcome |-> "none", expr |-> <<>>]

\* the page when no handler of it is followed
UIIdle ==
    /\ cronInput = <<>>
    /\ currentParsed = JsNull
    /\ dom = [errorHidden |-> TRUE, descriptionHidden |-> TRUE,
              nextRunsHidden |-> TRUE, breakdownHidden |-> TRUE,
              errorText |-> NoResult, nextRunsList |-> NoRuns]
    /\ timezone = "local"
    /\ updated = NoUpdate
    /\ uiPc = "idle"

\* the twelve checkboxes of the chmod helper
CHECKS == <<"u-r", "u-w", "u-x", "u-s", "g-r", "g-w", "g-x", "g-s",
            "o-r", "o-w", "o-x", "o-t">>

CheckIds == {CHECKS[i] : i \in 1..12}

\* parseOctal not called yet
NoOctal == [kind |-> "none", message |-> "", specialDigit |-> 0, u |-> 0,
            g |-> 0, o |-> 0, bits |-> <<>>]

\* the chmod helper when none of its functions is followed
ChmodIdle ==
    /\ checks = <<>>
    /\ octalRaw = <<>>
    /\ octalParsed = NoOctal
    /\ chmodPc = "idle"

\* the IP lookup page as served: loading indicator, error and results
\* hidden, no address in the results
IpPageServed ==
    [loadingHidden |-> TRUE, errorHidden |-> TRUE, errorText |-> "",
     resultsHidden |-> TRUE, resultsIp |-> <<>>]

\* the IP lookup page when none of its handlers is followed
IpIdle ==
    /\ ipInput = <<>>
    /\ ipLookups = <<>>
    /\ ipDom = IpPageServed
    /\ ipUrl = <<>>
    /\ ipTimers = 0
    /\ ipPc = "idle"

InitParse ==
    /\ field \in Strings \cup TermStrings
    /\ fieldName \in {FIELD_NAMES[i] : i \in 1..5}
    /\ pfResult = NoResult
    /\ pfPc = "call"
    /\ RunsIdle
    /\ CronIdle
    /\ UIIdle
    /\ ChmodIdle
    /\ IpIdle

CallParseField ==
    /\ pfPc = "call"
    /\ pfResult' = parseField(field, fieldName)
    /\ pfPc' = "done"
    /\ UNCHANGED <<field, fieldName>>
    /\ UNCHANGED runVars
    /\ UNCHANGED cronVars
    /\ UNCHANGED uiVars
    /\ UNCHANGED <<chmodVars, ipVars>>

NextParse == CallParseField

SpecParse == InitParse /\ [][NextParse]_vars

-----------------------------------------------------------------------------
(* Properties of parseField *)

Done     == pfPc = "done"
returned == pfResult.kind = "returned"
threw    == pfResult.kind = "threw"

\* the comma-separated terms of the raw field
terms == split(field, ",")

\* a string of decimal digits, and one with a minus sign in front
IsNatLiteral(s) == s # <<>> /\ \A i \in 1..Len(s) : IsDigit(s[i])
IsNegLiteral(s) == Len(s) >= 2 /\ s[1] = "-" /\ IsNatLiteral(Tail(s))

InBounds(n, name) == FIELD_RANGES[name].min <= n /\ n <= FIELD_RANGES[name].max

\* the integers lo..hi as an ascending list
Interval(lo, hi) == [k \in 1..(hi - lo + 1) |-> lo + k - 1]

\* every value of the field, Sunday once
FullRange(name) ==
    IF name = "dayOfWeek" THEN Interval(0, 6)
    ELSE Interval(FIELD_RANGES[name].min, FIELD_RANGES[name].max)

SameList(a, b) == Len(a) = Len(b) /\ \A k \in 1..Len(a) : a[k] = b[k]

\* C2: whenever parseField returns, the returned values list is non-empty.
C2_ValuesNonEmpty == (Done /\ returned) => Len(pfResult.values) > 0

\* a term that is a range, or the base of a step term, one of whose bounds
\* does not parse as an integer
BadRangeTerm(t) ==
    /\ ~includes(t, "/")
    /\ includes(t, "-")
    /\ \/ isNaN(parseInt(elemOr(split(t, "-"), 1)))
       \/ isNaN(parseInt(elemOr(split(t, "-"), 2)))

BadStepBase(t) ==
    LET base == elemOr(split(t, "/"), 1)
        step == parseInt(elemOr(split(t, "/"), 2))
    IN  /\ includes(t, "/")
        /\ ~isNaN(step) /\ step.val > 0
        /\ base # <<"*">>
        /\ IF includes(base, "-")
           THEN \/ isNaN(parseInt(elemOr(split(base, "-"), 1)))
                \/ isNaN(parseInt(elemOr(split(base, "-"), 2)))
           ELSE isNaN(parseInt(base))

\* C3: a field that is one range term, or one step term with a valid step,
\* with a bound that does not parse as an integer makes parseField throw.
C3_BadBoundThrows ==
    (Done /\ (BadRangeTerm(field) \/ BadStepBase(field))) => threw

\* C4: a list with `*` as one term and valid single values as the others is
\* accepted: the result is the whole range of the field, isWildcard false.
C4_WildcardInList ==
    (/\ Done
     /\ Len(terms) >= 2
     /\ \E k \in 1..Len(terms) : terms[k] = <<"*">>
     /\ \A k \in 1..Len(terms) :
            \/ terms[k] = <<"*">>
            \/ IsNatLiteral(terms[k]) /\ InBounds(parseInt(terms[k]).val, fieldName))
    => /\ returned
       /\ SameList(pfResult.values, FullRange(fieldName))
       /\ ~pfResult.isWildcard

\* C5: every returned value lies within the bounds of its field, and for
\* dayOfWeek within 0..6: 7 is never a member.
C5_ValuesInBounds ==
    (Done /\ returned) =>
        \A k \in 1..Len(pfResult.values) :
            /\ InBounds(pfResult.values[k], fieldName)
            /\ fieldName = "dayOfWeek" => pfResult.values[k] \in 0..6

\* a dayOfWeek field that names 7, and neither 0 nor `*`, gave Sunday as 0
C5_Witness ==
    /\ Done /\ returned
    /\ fieldName = "dayOfWeek"
    /\ includes(field, "7") /\ ~includes(field, "0") /\ ~includes(field, "*")
    /\ arrIncludes(pfResult.values, 0)

\* C6: the returned values list is strictly ascending.
C6_StrictlyAscending ==
    (Done /\ returned) =>
        \A k \in 1..(Len(pfResult.values) - 1) :
            pfResult.values[k] < pfResult.values[k + 1]

\* a list whose first two terms are single values in descending order, or
\* the same value twice, was parsed
C6_Witness ==
    /\ Done /\ returned
    /\ Len(terms) >= 2
    /\ IsNatLiteral(terms[1]) /\ IsNatLiteral(terms[2])
    /\ parseInt(terms[1]).val > parseInt(terms[2]).val
    /\ Len(pfResult.values) >= 2

\* C7: the returned isWildcard is true exactly when the raw field is "*".
C7_WildcardIffStar ==
    (Done /\ returned) => (pfResult.isWildcard <=> field = <<"*">>)

\* a field other than "*" expanded to the whole range
C7_Witness ==
    /\ Done /\ returned
    /\ field # <<"*">>
    /\ SameList(pfResult.values, FullRange(fieldName))

\* C8: parseField("*", f) returns exactly min..max of f (0..6 for
\* dayOfWeek) with isWildcard true.
C8_StarIsFullRange ==
    (Done /\ field = <<"*">>) =>
        /\ returned
        /\ pfResult.isWildcard
        /\ SameList(pfResult.values, FullRange(fieldName))

C8_Witness ==
    /\ Done /\ field = <<"*">> /\ fieldName = "dayOfWeek"
    /\ Len(pfResult.values) = 7

\* C9 as stated: a field that is one integer literal, negative ones
\* included, outside the bounds of the field makes parseField throw an
\* error that names the field and its bounds.
C9_OutOfRangeNamesBounds ==
    (/\ Done
     /\ IsNatLiteral(field) \/ IsNegLiteral(field)
     /\ ~InBounds(parseInt(field).val, fieldName))
    => /\ threw
       /\ pfResult.field = fieldName
       /\ pfResult.bounds = <<FIELD_RANGES[fieldName].min, FIELD_RANGES[fieldName].max>>

\* the first term of the list that is out of bounds
FirstOutOfBounds ==
    CHOOSE k \in 1..Len(terms) :
        /\ ~InBounds(parseInt(terms[k]).val, fieldName)
        /\ \A j \in 1..(k - 1) : InBounds(parseInt(terms[j]).val, fieldName)

\* C9 amended: in a list of digit-only single values, the first one outside
\* the bounds makes parseField throw the out-of-range error, carrying that
\* value, the field name and the bounds of the field; a field that is a
\* negative literal throws the invalid-range error, which names the field
\* and no bounds.
C9_DigitsOutOfRangeNamesBounds ==
    /\ (/\ Done
        /\ \A k \in 1..Len(terms) : IsNatLiteral(terms[k])
        /\ \E k \in 1..Len(terms) : ~InBounds(parseInt(terms[k]).val, fieldName))
       => /\ threw
          /\ pfResult.template = "Value out of range"
          /\ pfResult.val = parseInt(terms[FirstOutOfBounds]).val
          /\ pfResult.field = fieldName
          /\ pfResult.bounds =
                <<FIELD_RANGES[fieldName].min, FIELD_RANGES[fieldName].max>>
    /\ (Done /\ IsNegLiteral(field))
       => /\ threw
          /\ pfResult.template = "Invalid range"
          /\ pfResult.quoted = field
          /\ pfResult.field = fieldName
          /\ pfResult.bounds = <<>>

\* a value below the minimum of its field was rejected with the bounds named
C9_Witness ==
    /\ Done /\ threw
    /\ IsNatLiteral(field)
    /\ parseInt(field).val < FIELD_RANGES[fieldName].min
    /\ pfResult.bounds = <<FIELD_RANGES[fieldName].min, FIELD_RANGES[fieldName].max>>

\* a step term whose step does not parse as an integer or is not positive
BadStep(t) ==
    /\ includes(t, "/")
    /\ \/ isNaN(parseInt(elemOr(split(t, "/"), 2)))
       \/ parseInt(elemOr(split(t, "/"), 2)).val <= 0

\* C10: a term with a step that is not a positive integer makes parseField
\* throw an error naming the field; when it is the first term, the error is
\* the invalid-step error quoting the step.
C10_BadStepThrows ==
    /\ (Done /\ \E k \in 1..Len(terms) : BadStep(terms[k]))
       => (threw /\ pfResult.field = fieldName)
    /\ (Done /\ BadStep(terms[1]))
       => /\ pfResult.template = "Invalid step value"
          /\ pfResult.quoted = elemOr(split(terms[1], "/"), 2)

\* a step that is not a number at all was rejected
C10_Witness ==
    /\ Done /\ threw
    /\ BadStep(field)
    /\ isNaN(parseInt(elemOr(split(field, "/"), 2)))
    /\ pfResult.template = "Invalid step value"

\* Sunday is stored as 0: the value kept for i
Sunday0(name, i) == IF name = "dayOfWeek" /\ i = 7 THEN 0 ELSE i

\* a range a-b written with two digit strings
IsRange(t) ==
    /\ Len(split(t, "-")) = 2
    /\ IsNatLiteral(split(t, "-")[1])
    /\ IsNatLiteral(split(t, "-")[2])

\* a step term base/s with s a positive integer and base `*`, a or a-b
IsStepTerm(t) ==
    /\ Len(split(t, "/")) = 2
    /\ IsNatLiteral(split(t, "/")[2])
    /\ parseInt(split(t, "/")[2]).val > 0
    /\ LET base == split(t, "/")[1]
       IN  base = <<"*">> \/ IsNatLiteral(base) \/ IsRange(base)

StepBase(t) == split(t, "/")[1]
StepOf(t)   == parseInt(split(t, "/")[2]).val

StepStart(t, name) ==
    IF StepBase(t) = <<"*">> THEN FIELD_RANGES[name].min
    ELSE IF IsRange(StepBase(t)) THEN parseInt(split(StepBase(t), "-")[1]).val
    ELSE parseInt(StepBase(t)).val

StepEnd(t, name) ==
    IF StepBase(t) = <<"*">> THEN FIELD_RANGES[name].max
    ELSE IF IsRange(StepBase(t)) THEN parseInt(split(StepBase(t), "-")[2]).val
    ELSE FIELD_RANGES[name].max

\* start, start + s, ... up to end, within the bounds of the field
Progression(start, end, s, name) ==
    { Sunday0(name, i) :
        i \in { j \in FIELD_RANGES[name].min..FIELD_RANGES[name].max :
                  start <= j /\ j <= end /\ (j - start) % s = 0 } }

\* C11: a field that is one step term with a positive step s yields exactly
\* start, start + s, ... not exceeding end, within min..max (Sunday stored as
\* 0), where (start, end) is (min, max) for base `*`, (a, b) for base a-b
\* and (a, max) for base a.
C11_StepProgression ==
    (Done /\ ~includes(field, ",") /\ IsStepTerm(field)) =>
        /\ returned
        /\ SameList(pfResult.values,
                    ascending(Progression(StepStart(field, fieldName),
                                          StepEnd(field, fieldName),
                                          StepOf(field), fieldName)))

\* "*/15" for minute gave 0, 15, 30, 45
C11_Witness ==
    /\ Done /\ returned
    /\ fieldName = "minute"
    /\ field = <<"*", "/", "1", "5">>
    /\ pfResult.values = <<0, 15, 30, 45>>

\* C12: a field that is one plain range a-b yields exactly the integers of
\* a..b that lie within min..max (Sunday stored as 0) and never throws,
\* whatever a and b are.
C12_RangeClipped ==
    (Done /\ ~includes(field, ",") /\ ~includes(field, "/") /\ IsRange(field)) =>
        /\ returned
        /\ SameList(pfResult.values,
                    ascending(Progression(parseInt(split(field, "-")[1]).val,
                                          parseInt(split(field, "-")[2]).val,
                                          1, fieldName)))

\* "50-70" for minute gave 50..59
C12_Witness ==
    /\ Done /\ returned
    /\ fieldName = "minute"
    /\ field = <<"5", "0", "-", "7", "0">>
    /\ SameList(pfResult.values, Interval(50, 59))

\* the list with every single value 7 rewritten as 0
SevenAsZero(ts) ==
    [k \in 1..Len(ts) |->
        IF IsNatLiteral(ts[k]) /\ parseInt(ts[k]).val = 7 THEN <<"0">> ELSE ts[k]]

RECURSIVE join(_, _)
join(ts, c) ==
    IF Len(ts) = 0 THEN <<>>
    ELSE IF Len(ts) = 1 THEN ts[1]
    ELSE ts[1] \o <<c>> \o join(Tail(ts), c)

\* C13: for dayOfWeek, a list of single values parses to the same result
\* when every 7 in it is written 0; "7", "0" and "0,7" give exactly 0, and
\* the range 5-7 gives 0, 5, 6.
C13_SevenIsZero ==
    /\ (/\ Done /\ fieldName = "dayOfWeek"
        /\ \A k \in 1..Len(terms) : IsNatLiteral(terms[k]))
       => pfResult = parseField(join(SevenAsZero(terms), ","), "dayOfWeek")
    /\ (/\ Done /\ fieldName = "dayOfWeek"
        /\ field \in {<<"7">>, <<"0">>, <<"0", ",", "7">>, <<"7", ",", "0">>})
       => (returned /\ pfResult.values = <<0>>)
    /\ (Done /\ fieldName = "dayOfWeek" /\ field = <<"5", "-", "7">>)
       => (returned /\ pfResult.values = <<0, 5, 6>>)

\* a list naming both 0 and 7 was parsed
C13_Witness ==
    /\ Done /\ returned
    /\ fieldName = "dayOfWeek"
    /\ field = <<"0", ",", "7">>
    /\ pfResult.values = <<0>>


-----------------------------------------------------------------------------
(* Dates: local calendar time without daylight-saving shifts *)

isLeapYear(y) == (y % 4 = 0 /\ y % 100 # 0) \/ y % 400 = 0

daysInMonth(y, m) ==
    IF m = 2 THEN (IF isLeapYear(y) THEN 29 ELSE 28)
    ELSE IF m \in {4, 6, 9, 11} THEN 30 ELSE 31

\* date.setSeconds(0, 0)
setSecondsZero(d) == [d EXCEPT !.second = 0]

\* date.setMinutes(date.getMinutes() + 1): the overflow carries into the
\* hour, the day (and its week day), the month and the year
addMinute_stuck(d) == d
addMinute(d) ==
    IF d.minute < 59 THEN [d EXCEPT !.minute = d.minute + 1]
    ELSE IF d.hour < 23 THEN [d EXCEPT !.minute = 0, !.hour = d.hour + 1]
    ELSE IF d.day < daysInMonth(d.year, d.month)
    THEN [d EXCEPT !.minute = 0, !.hour = 0, !.day = d.day + 1,
                   !.dow = (d.dow + 1) % 7]
    ELSE IF d.month < 12
    THEN [d EXCEPT !.minute = 0, !.hour = 0, !.day = 1, !.month = d.month + 1,
                   !.dow = (d.dow + 1) % 7]
    ELSE [d EXCEPT !.minute = 0, !.hour = 0, !.day = 1, !.month = 1,
                   !.year = d.year + 1, !.dow = (d.dow + 1) % 7]

-----------------------------------------------------------------------------
(* getNextRuns *)

maxIterations == 525600

\* most loop rounds of getNextRuns the model follows
MaxSteps == 4

\* the five parseField calls of parseCronExpression on its five tokens
parseFields(parts) ==
    CHOOSE p \in
        { [minute |-> r[1], hour |-> r[2], dayOfMonth |-> r[3],
           month |-> r[4], dayOfWeek |-> r[5]] :
          r \in {[idx \in 1..5 |-> parseField(parts[idx], FIELD_NAMES[idx])]} } :
        TRUE

\* the expressions whose schedules are searched, as their five tokens:
\* 0 0 15 * 1,  * * * * *,  0 0 * * 1,  0 0 15 * *,  0 0 1 1 *,
\* 0 0 31 2 *,  59 23 * * *,  * * * 1 *,  0 23 * * *
Expressions ==
    { <<<<"0">>, <<"0">>, <<"1", "5">>, <<"*">>, <<"1">>>>,
      <<<<"*">>, <<"*">>, <<"*">>, <<"*">>, <<"*">>>>,
      <<<<"0">>, <<"0">>, <<"*">>, <<"*">>, <<"1">>>>,
      <<<<"0">>, <<"0">>, <<"1", "5">>, <<"*">>, <<"*">>>>,
      <<<<"0">>, <<"0">>, <<"1">>, <<"1">>, <<"*">>>>,
      <<<<"0">>, <<"0">>, <<"3", "1">>, <<"2">>, <<"*">>>>,
      <<<<"5", "9">>, <<"2", "3">>, <<"*">>, <<"*">>, <<"*">>>>,
      <<<<"*">>, <<"*">>, <<"*">>, <<"1">>, <<"*">>>>,
      <<<<"0">>, <<"2", "3">>, <<"*">>, <<"*">>, <<"*">>>> }

\* the instants at which getNextRuns is called
Instants ==
    { [year |-> 2026, month |-> 9, day |-> 14, hour |-> 23, minute |-> 57, second |-> 30, dow |-> 1],
      [year |-> 2026, month |-> 8, day |-> 2, hour |-> 23, minute |-> 58, second |-> 0, dow |-> 0],
      [year |-> 2026, month |-> 6, day |-> 9, hour |-> 23, minute |-> 58, second |-> 15, dow |-> 2],
      [year |-> 2026, month |-> 12, day |-> 31, hour |-> 23, minute |-> 58, second |-> 59, dow |-> 4],
      [year |-> 2028, month |-> 2, day |-> 28, hour |-> 23, minute |-> 58, second |-> 0, dow |-> 1],
      [year |-> 2027, month |-> 2, day |-> 28, hour |-> 23, minute |-> 58, second |-> 0, dow |-> 0] }

Counts == {1, 2, 10}

\* the test of the outer `if`
fieldsMatch_noMinute(p, d) ==
    /\ arrIncludes(p.hour.values, d.hour)
    /\ arrIncludes(p.month.values, d.month)
    /\ (arrIncludes(p.dayOfMonth.values, d.day) \/ p.dayOfMonth.isWildcard)
    /\ (arrIncludes(p.dayOfWeek.values, d.dow) \/ p.dayOfWeek.isWildcard)
fieldsMatch(p, d) ==
    /\ arrIncludes(p.minute.values, d.minute)
    /\ arrIncludes(p.hour.values, d.hour)
    /\ arrIncludes(p.month.values, d.month)
    /\ (arrIncludes(p.dayOfMonth.values, d.day) \/ p.dayOfMonth.isWildcard)
    /\ (arrIncludes(p.dayOfWeek.values, d.dow) \/ p.dayOfWeek.isWildcard)

\* whether the round examining d pushes it: the outer test, then the inner
\* test where both day fields are restricted
pushes_always(p, d) == TRUE
pushes(p, d) ==
    /\ fieldsMatch(p, d)
    /\ IF ~p.dayOfMonth.isWildcard /\ ~p.dayOfWeek.isWildcard
       THEN \/ arrIncludes(p.dayOfMonth.values, d.day)
            \/ arrIncludes(p.dayOfWeek.values, d.dow)
       ELSE TRUE

\* the options of #timezone-select, whose value is the timezone argument
Timezones == {"local", "UTC"}

InitRuns ==
    /\ parsed \in {parseFields(e) : e \in Expressions}
    /\ now \in Instants
    /\ count \in Counts
    /\ timezoneArg \in Timezones
    /\ date = NoDate
    /\ cand = NoDate
    /\ runs = <<>>
    /\ iterations = 0
    /\ grPc = "call"
    /\ ParseIdle
    /\ CronIdle
    /\ UIIdle
    /\ ChmodIdle
    /\ IpIdle

\* lines 303-304: the first candidate is now without its seconds, plus one
\* minute
firstCandidate_same(d) == setSecondsZero(d)
firstCandidate(d) == addMinute(setSecondsZero(d))

\* lines 312-316: getMinutes, getHours, getDate, getMonth and getDay read
\* the candidate in the local zone; the timezone argument is not consulted
localFields_zoned(d, tz) ==
    IF tz = "local" THEN d ELSE [d EXCEPT !.hour = (d.hour + 1) % 24]
localFields(d, tz) == d

\* lines 299-307: the first candidate is the minute after now
EnterGetNextRuns ==
    /\ grPc = "call"
    /\ runs' = <<>>
    /\ date' = firstCandidate(now)
    /\ iterations' = 0
    /\ grPc' = "loop"
    /\ UNCHANGED <<parsed, now, count, timezoneArg, cand>>
    /\ UNCHANGED parseVars
    /\ UNCHANGED cronVars
    /\ UNCHANGED uiVars
    /\ UNCHANGED <<chmodVars, ipVars>>

\* the test of the while loop
loopTest == Len(runs) < count /\ iterations < maxIterations

\* one round of the while loop
Round ==
    /\ grPc = "loop"
    /\ loopTest
    /\ iterations' = iterations + 1
    /\ cand' = date
    /\ runs' = IF pushes(parsed, localFields(date, timezoneArg))
               THEN Append(runs, date)
               ELSE runs
    /\ date' = addMinute(date)
    /\ UNCHANGED <<parsed, now, count, timezoneArg, grPc>>
    /\ UNCHANGED parseVars
    /\ UNCHANGED cronVars
    /\ UNCHANGED uiVars
    /\ UNCHANGED <<chmodVars, ipVars>>

\* a round among the first MaxSteps of a call
LoopRound == iterations < MaxSteps /\ Round

\* the loop test fails: return runs
ReturnRuns ==
    /\ grPc = "loop"
    /\ ~loopTest
    /\ grPc' = "returned"
    /\ UNCHANGED <<parsed, now, count, timezoneArg, date, cand, runs,
                   iterations>>
    /\ UNCHANGED parseVars
    /\ UNCHANGED cronVars
    /\ UNCHANGED uiVars
    /\ UNCHANGED <<chmodVars, ipVars>>

NextRuns == EnterGetNextRuns \/ LoopRound \/ ReturnRuns

SpecRuns == InitRuns /\ [][NextRuns]_vars

-----------------------------------------------------------------------------
(* getNextRuns followed to its return, over the whole horizon *)

\* the schedules followed to the return:  0 0 31 2 * (no minute of any
\* year matches it),  0 0 1 1 * (one minute a year) and  * * * * *
Never == <<<<"0">>, <<"0">>, <<"3", "1">>, <<"2">>, <<"*">>>>
Yearly == <<<<"0">>, <<"0">>, <<"1">>, <<"1">>, <<"*">>>>
EveryMinute == <<<<"*">>, <<"*">>, <<"*">>, <<"*">>, <<"*">>>>

InitHorizon ==
    /\ parsed \in {parseFields(e) : e \in {Never, Yearly, EveryMinute}}
    /\ now = [year |-> 2027, month |-> 2, day |-> 28, hour |-> 23,
              minute |-> 58, second |-> 0, dow |-> 0]
    /\ count = 10
    /\ timezoneArg = "local"
    /\ date = NoDate
    /\ cand = NoDate
    /\ runs = <<>>
    /\ iterations = 0
    /\ grPc = "call"
    /\ ParseIdle
    /\ CronIdle
    /\ UIIdle
    /\ ChmodIdle
    /\ IpIdle

NextHorizon == EnterGetNextRuns \/ Round \/ ReturnRuns

SpecHorizon == InitHorizon /\ [][NextHorizon]_vars /\ WF_vars(NextHorizon)

-----------------------------------------------------------------------------
(* normalizeExpression *)

UpperCase == <<"A", "B", "C", "D", "E", "F", "G", "H", "I", "J", "K", "L", "M", "N", "O", "P", "Q", "R", "S", "T", "U", "V", "W", "X", "Y", "Z">>
LowerCase == <<"a", "b", "c", "d", "e", "f", "g", "h", "i", "j", "k", "l", "m", "n", "o", "p", "q", "r", "s", "t", "u", "v", "w", "x", "y", "z">>

\* the lower-case letter of each upper-case letter
LowerOf == [c \in {UpperCase[i] : i \in 1..26} |->
               LowerCase[CHOOSE i \in 1..26 : UpperCase[i] = c]]

Letters == {UpperCase[i] : i \in 1..26} \cup {LowerCase[i] : i \in 1..26}

\* String.prototype.toLowerCase
toLowerChar(c) == IF c \in DOMAIN LowerOf THEN LowerOf[c] ELSE c
toLowerCase(s) == <<>> \o [i \in 1..Len(s) |-> toLowerChar(s[i])]

\* String.prototype.trim
trim(s) ==
    LET inked == {i \in 1..Len(s) : s[i] \notin WhiteSpace}
    IN  IF inked = {} THEN <<>>
        ELSE SubSeq(s, CHOOSE i \in inked : \A j \in inked : i <= j,
                       CHOOSE i \in inked : \A j \in inked : j <= i)

\* Number.prototype.toString for 0..99
toStr(n) ==
    IF n < 10 THEN <<Digits[n + 1]>>
    ELSE <<Digits[(n \div 10) + 1], Digits[(n % 10) + 1]>>

\* MONTH_ABBR and DAY_ABBR after abbr.toLowerCase(), index 0 first
MONTH_ABBR == <<<<>>, <<"j", "a", "n">>, <<"f", "e", "b">>, <<"m", "a", "r">>, <<"a", "p", "r">>, <<"m", "a", "y">>, <<"j", "u", "n">>, <<"j", "u", "l">>, <<"a", "u", "g">>, <<"s", "e", "p">>, <<"o", "c", "t">>, <<"n", "o", "v">>, <<"d", "e", "c">>>>
DAY_ABBR == <<<<"s", "u", "n">>, <<"m", "o", "n">>, <<"t", "u", "e">>, <<"w", "e", "d">>, <<"t", "h", "u">>, <<"f", "r", "i">>, <<"s", "a", "t">>, <<"s", "u", "n">>>>

\* SPECIAL_STRINGS: its own keys and their values
SPECIAL_STRINGS ==
    { <<<<"@", "y", "e", "a", "r", "l", "y">>, <<"0", " ", "0", " ", "1", " ", "1", " ", "*">>>>,
      <<<<"@", "a", "n", "n", "u", "a", "l", "l", "y">>, <<"0", " ", "0", " ", "1", " ", "1", " ", "*">>>>,
      <<<<"@", "m", "o", "n", "t", "h", "l", "y">>, <<"0", " ", "0", " ", "1", " ", "*", " ", "*">>>>,
      <<<<"@", "w", "e", "e", "k", "l", "y">>, <<"0", " ", "0", " ", "*", " ", "*", " ", "0">>>>,
      <<<<"@", "d", "a", "i", "l", "y">>, <<"0", " ", "0", " ", "*", " ", "*", " ", "*">>>>,
      <<<<"@", "m", "i", "d", "n", "i", "g", "h", "t">>, <<"0", " ", "0", " ", "*", " ", "*", " ", "*">>>>,
      <<<<"@", "h", "o", "u", "r", "l", "y">>, <<"0", " ", "*", " ", "*", " ", "*", " ", "*">>>> }

\* the all-lower-case property names an object literal inherits from
\* Object.prototype; their values are objects, hence truthy
InheritedKeys == { <<"c", "o", "n", "s", "t", "r", "u", "c", "t", "o", "r">>, <<"_", "_", "p", "r", "o", "t", "o", "_", "_">> }

\* JavaScript values: a string, an object that is no string, and the
\* outcome of a call that threw
JsString(str)  == [type |-> "string", str |-> str, what |-> ""]
JsObject(what) == [type |-> "object", str |-> <<>>, what |-> what]
JsThrew(what)  == [type |-> "threw",  str |-> <<>>, what |-> what]

\* SPECIAL_STRINGS[expr]: the value of an own key, an inherited property,
\* or undefined
lookupSpecial(expr) ==
    IF \E e \in SPECIAL_STRINGS : e[1] = expr
    THEN JsString((CHOOSE e \in SPECIAL_STRINGS : e[1] = expr)[2])
    ELSE IF expr \in InheritedKeys
    THEN JsObject("inherited from Object.prototype")
    ELSE [type |-> "undefined", str |-> <<>>, what |-> ""]

\* \w of a regular expression
isWordChar(c) == c \in Letters \/ IsDigit(c) \/ c = "_"

\* \b between positions p - 1 and p of s
wordBoundary(s, p) ==
    (p - 1 \in 1..Len(s) /\ isWordChar(s[p - 1]))
        # (p \in 1..Len(s) /\ isWordChar(s[p]))

\* /\bword\b/gi matches at position i of s
matchAt(s, i, word) ==
    /\ i + Len(word) - 1 <= Len(s)
    /\ \A k \in 1..Len(word) : toLowerChar(s[i + k - 1]) = word[k]
    /\ wordBoundary(s, i)
    /\ wordBoundary(s, i + Len(word))

\* s from position `from` on, with the matches ms[k], ms[k + 1], ... of
\* word replaced by repl
RECURSIVE replaceFrom(_, _, _, _, _, _)
replaceFrom(s, ms, k, from, word, repl) ==
    IF k > Len(ms) THEN SubSeq(s, from, Len(s))
    ELSE SubSeq(s, from, ms[k] - 1) \o repl
            \o replaceFrom(s, ms, k + 1, ms[k] + Len(word), word, repl)

\* expr.replace(new RegExp('\\b' + word + '\\b', 'gi'), repl): every match,
\* from left to right, gives way to repl.  Two matches of one word cannot
\* overlap, a match being bounded by \b on both sides.
replaceWord(s, word, repl) ==
    LET M == {i \in 1..Len(s) : matchAt(s, i, word)}
    IN  IF M = {} THEN s ELSE replaceFrom(s, ascending(M), 1, 1, word, repl)

\* MONTH_ABBR.forEach: idx 1..12 (array index idx is MONTH_ABBR[idx + 1])
RECURSIVE replaceMonths(_, _)
replaceMonths(s, idx) ==
    IF idx > 12 THEN s
    ELSE replaceMonths(replaceWord(s, MONTH_ABBR[idx + 1], toStr(idx)), idx + 1)

\* DAY_ABBR.forEach: idx 0..6
RECURSIVE replaceDays(_, _)
replaceDays(s, idx) ==
    IF idx > 6 THEN s
    ELSE replaceDays(replaceWord(s, DAY_ABBR[idx + 1], toStr(idx)), idx + 1)

\* normalizeExpression(v): v.trim() throws when v is no string
normalizeExpression(v) ==
    IF v.type # "string" THEN JsThrew("TypeError: expr.trim is not a function")
    ELSE LET expr == toLowerCase(trim(v.str))
         IN  IF lookupSpecial(expr).type # "undefined"
             THEN lookupSpecial(expr)
             ELSE JsString(replaceDays(replaceMonths(expr, 1), 0))

-----------------------------------------------------------------------------
(* parseCronExpression *)

\* String.prototype.split(/\s+/)
RECURSIVE splitSpaces(_)
splitSpaces(s) ==
    IF \A i \in 1..Len(s) : s[i] \notin WhiteSpace
    THEN <<s>>
    ELSE LET i == CHOOSE k \in 1..Len(s) :
                    /\ s[k] \in WhiteSpace
                    /\ \A j \in 1..(k - 1) : s[j] \notin WhiteSpace
             after == {k \in (i + 1)..Len(s) : s[k] \notin WhiteSpace}
             j == IF after = {} THEN Len(s) + 1
                  ELSE CHOOSE k \in after : \A m \in after : k <= m
         IN  <<SubSeq(s, 1, i - 1)>> \o splitSpaces(SubSeq(s, j, Len(s)))

\* what parseCronExpression returns, and what it throws
CronReturned(p) ==
    [kind |-> "returned", parsed |-> p, error |-> NoResult, got |-> 5]
CronThrew(error, got) ==
    [kind |-> "threw", parsed |-> <<>>, error |-> error, got |-> got]

\* the first field, in the order of FIELD_NAMES, whose parseField threw
firstThrown(results) ==
    FIELD_NAMES[CHOOSE i \in 1..5 :
        /\ results[FIELD_NAMES[i]].kind = "threw"
        /\ \A j \in 1..(i - 1) : results[FIELD_NAMES[j]].kind # "threw"]

\* the forEach over FIELD_NAMES on the five parts: the first parseField
\* that throws ends it, otherwise parsed is returned
fieldsResult(parts) ==
    CHOOSE out \in
        { IF \E i \in 1..5 : results[FIELD_NAMES[i]].kind = "threw"
          THEN CronThrew(results[firstThrown(results)], 5)
          ELSE CronReturned(results) : results \in {parseFields(parts)} } : TRUE

\* the part of parseCronExpression after normalizeExpression has returned
splitAndParse(normalized, parts) ==
    IF normalized.type # "string"
    THEN CronThrew(Thrown("TypeError: normalized.split is not a function",
                          <<>>, 0, "", <<>>), 0)
    ELSE IF Len(parts) # 5
    THEN CronThrew(Thrown("Expected 5 fields, got", <<>>, Len(parts), "", <<>>),
                   Len(parts))
    ELSE fieldsResult(parts)

\* const normalized and const parts are each computed once, then used
parseCronExpression(expr) ==
    CHOOSE r \in { splitAndParse(c[1], c[2]) :
                     c \in { <<normalized, splitSpaces(normalized.str)>> :
                             normalized \in {normalizeExpression(JsString(expr))} } } :
        TRUE

-----------------------------------------------------------------------------
(* Calling normalizeExpression and parseCronExpression on one expression *)

\* most tokens of an expression
MaxTokens == 6

\* the tokens expressions are made of
Lexemes == { <<"*">>, <<"J", "a", "n">>, <<"s", "u", "n">>, <<"j", "a", "n", "x">> }

\* the tokens joined by sep
RECURSIVE joinTokens(_, _)
joinTokens(ts, sep) ==
    IF Len(ts) = 0 THEN <<>>
    ELSE IF Len(ts) = 1 THEN ts[1]
    ELSE ts[1] \o sep \o joinTokens(Tail(ts), sep)

TokenLists == UNION { [1..n -> Lexemes] : n \in 0..MaxTokens }

\* aliases, near-aliases, inherited property names and other whole inputs
WholeInputs ==
    { <<"m", "o", "n", "-", "F", "R", "I", " ", "*", " ", "*", " ", "*", " ", "*">>,
      <<" ", " ", "*", " ", "*", " ", " ", "J", "a", "n", " ", " ", " ", "s", "u", "n", " ", "*", " ", " ">>,
      <<" ">>,
      <<"*", " ", "*", " ", "*", " ", "s", "u", "n", " ", "*">>,
      <<"@", "y", "e", "a", "r", "l", "y">>,
      <<"@", "a", "n", "n", "u", "a", "l", "l", "y">>,
      <<"@", "m", "o", "n", "t", "h", "l", "y">>,
      <<"@", "w", "e", "e", "k", "l", "y">>,
      <<"@", "d", "a", "i", "l", "y">>,
      <<"@", "m", "i", "d", "n", "i", "g", "h", "t">>,
      <<"@", "h", "o", "u", "r", "l", "y">>,
      <<"@", "Y", "E", "A", "R", "L", "Y">>,
      <<"@", "D", "a", "i", "l", "y">>,
      <<" ", "@", "h", "o", "u", "r", "l", "y", " ", " ">>,
      <<"@", "y", "e", "a", "r", "l", "y", " ", "*">>,
      <<"@", "y", "e", "a", "r">>,
      <<"c", "o", "n", "s", "t", "r", "u", "c", "t", "o", "r">>,
      <<"_", "_", "p", "r", "o", "t", "o", "_", "_">>,
      <<"C", "o", "n", "s", "t", "r", "u", "c", "t", "o", "r">>,
      <<"0", " ", "0", " ", "1", " ", "J", "A", "N", "-", "m", "a", "r", " ", "M", "O", "N", ",", "w", "e", "d">>,
      <<"*", " ", "*", " ", "*", " ", "*", " ", "s", "u", "n", "d", "a", "y">>,
      <<"0", " ", "0", " ", "3", "1", " ", "2", " ", "*">>,
      <<"*", "/", "1", "5", " ", "*", " ", "*", " ", "*", " ", "*">>,
      <<"*", " ", "*", " ", "*", " ", "*", " ", "1", " ", "j", "a", "n">> }

Expressions5 ==
    { joinTokens(ts, <<" ">>) : ts \in TokenLists } \cup WholeInputs

InitCron ==
    /\ exprIn \in Expressions5
    /\ normOut = NoValue
    /\ normTwice = NoValue
    /\ cronOut = NoCron
    /\ cronPc = "call"
    /\ ParseIdle
    /\ RunsIdle
    /\ UIIdle
    /\ ChmodIdle
    /\ IpIdle

CallNormalize ==
    /\ cronPc = "call"
    /\ normOut' = normalizeExpression(JsString(exprIn))
    /\ cronPc' = "normalized"
    /\ UNCHANGED <<exprIn, normTwice, cronOut>>
    /\ UNCHANGED parseVars
    /\ UNCHANGED runVars
    /\ UNCHANGED uiVars
    /\ UNCHANGED <<chmodVars, ipVars>>

\* normalizeExpression applied to its own result
CallNormalizeAgain ==
    /\ cronPc = "normalized"
    /\ normTwice' = normalizeExpression(normOut)
    /\ cronPc' = "twice"
    /\ UNCHANGED <<exprIn, normOut, cronOut>>
    /\ UNCHANGED parseVars
    /\ UNCHANGED runVars
    /\ UNCHANGED uiVars
    /\ UNCHANGED <<chmodVars, ipVars>>

CallParseCron ==
    /\ cronPc = "call"
    /\ cronOut' = parseCronExpression(exprIn)
    /\ cronPc' = "parsed"
    /\ UNCHANGED <<exprIn, normOut, normTwice>>
    /\ UNCHANGED parseVars
    /\ UNCHANGED runVars
    /\ UNCHANGED uiVars
    /\ UNCHANGED <<chmodVars, ipVars>>

NextCron == CallNormalize \/ CallNormalizeAgain \/ CallParseCron

SpecCron == InitCron /\ [][NextCron]_vars

-----------------------------------------------------------------------------
(* The page: currentParsed, updateResults and the handlers that call it *)

\* expressions typed, preset on example buttons or built in the builder:
\* "0 0 1 1 *",  "5 4 * * 1",  "@daily",  "7-1 0 * * *",  "60 0 * * *",  "0 24 * * *",  "0 0 0 * *",
\* "0 0 * 13 *",  "0 0 * * 8",  "0 0",  " ",  "",  "constructor",  " 5 4 * * 1 "
UIInputs ==
    { <<"0", " ", "0", " ", "1", " ", "1", " ", "*">>,
      <<"5", " ", "4", " ", "*", " ", "*", " ", "1">>,
      <<"@", "d", "a", "i", "l", "y">>,
      <<"7", "-", "1", " ", "0", " ", "*", " ", "*", " ", "*">>,
      <<"6", "0", " ", "0", " ", "*", " ", "*", " ", "*">>,
      <<"0", " ", "2", "4", " ", "*", " ", "*", " ", "*">>,
      <<"0", " ", "0", " ", "0", " ", "*", " ", "*">>,
      <<"0", " ", "0", " ", "*", " ", "1", "3", " ", "*">>,
      <<"0", " ", "0", " ", "*", " ", "*", " ", "8">>,
      <<"0", " ", "0">>,
      <<" ">>,
      <<>>,
      <<"c", "o", "n", "s", "t", "r", "u", "c", "t", "o", "r">>,
      <<" ", "5", " ", "4", " ", "*", " ", "*", " ", "1", " ">> }

\* showError(message)
showError_sectionsLeft(message) ==
    [errorHidden |-> FALSE, descriptionHidden |-> TRUE,
     nextRunsHidden |-> dom.nextRunsHidden,
     breakdownHidden |-> dom.breakdownHidden, errorText |-> message,
     nextRunsList |-> dom.nextRunsList]
showError(message) ==
    [errorHidden |-> FALSE, descriptionHidden |-> TRUE,
     nextRunsHidden |-> TRUE, breakdownHidden |-> TRUE, errorText |-> message,
     nextRunsList |-> dom.nextRunsList]

\* updateNextRuns(parsed): #next-runs-list is filled with the runs of
\* parsed, formatted for the zone tz that #timezone-select holds
updateNextRuns(p, tz) == [of |-> Schedule(p), tz |-> tz]

\* hideError(), updateNextRuns(parsed), then the two sections shown at the
\* end of the try block
showResults(p) ==
    [errorHidden |-> TRUE, descriptionHidden |-> FALSE,
     nextRunsHidden |-> FALSE, breakdownHidden |-> FALSE,
     errorText |-> dom.errorText,
     nextRunsList |-> updateNextRuns(p, timezone)]

\* updateResults(expr).  generateDescription, updateNextRuns and
\* updateBreakdown return for every schedule parseCronExpression returns,
\* so the catch block runs exactly when parseCronExpression throws.
updateResults_keepParsed(expr) ==
    \E r \in {parseCronExpression(expr)} :
        IF r.kind = "returned"
        THEN /\ currentParsed' = Schedule(r.parsed)
             /\ dom' = showResults(r.parsed)
             /\ updated' = [outcome |-> "returned", expr |-> expr]
        ELSE /\ dom' = showError(r.error)
             /\ currentParsed' = currentParsed
             /\ updated' = [outcome |-> "threw", expr |-> expr]
updateResults(expr) ==
    \E r \in {parseCronExpression(expr)} :
        IF r.kind = "returned"
        THEN /\ currentParsed' = Schedule(r.parsed)
             /\ dom' = showResults(r.parsed)
             /\ updated' = [outcome |-> "returned", expr |-> expr]
        ELSE /\ dom' = showError(r.error)
             /\ currentParsed' = JsNull
             /\ updated' = [outcome |-> "threw", expr |-> expr]

\* the page as served: the input may be preset, any element may be hidden
InitUI ==
    /\ cronInput \in UIInputs
    /\ currentParsed = JsNull
    /\ dom \in [errorHidden : BOOLEAN, descriptionHidden : BOOLEAN,
                nextRunsHidden : BOOLEAN, breakdownHidden : BOOLEAN,
                errorText : {NoResult}, nextRunsList : {NoRuns}]
    /\ timezone \in Timezones
    /\ updated = NoUpdate
    /\ uiPc = "loading"
    /\ ParseIdle
    /\ RunsIdle
    /\ CronIdle
    /\ ChmodIdle
    /\ IpIdle

\* DOMContentLoaded: the initial parse of a non-empty input
DOMContentLoaded ==
    /\ uiPc = "loading"
    /\ uiPc' = "ready"
    /\ IF cronInput # <<>>
       THEN updateResults(cronInput)
       ELSE UNCHANGED <<currentParsed, dom, updated>>
    /\ UNCHANGED <<cronInput, timezone>>
    /\ UNCHANGED <<parseVars, runVars, cronVars, chmodVars, ipVars>>

\* the input listener: typing leaves text in the input
OnInput ==
    /\ uiPc = "ready"
    /\ \E text \in UIInputs :
          /\ cronInput' = text
          /\ IF trim(text) # <<>>
             THEN updateResults(trim(text))
             ELSE UNCHANGED <<currentParsed, dom, updated>>
    /\ UNCHANGED <<timezone, uiPc>>
    /\ UNCHANGED <<parseVars, runVars, cronVars, chmodVars, ipVars>>

\* the click listener of #use-expression: expr is the builder's result
OnUseExpression ==
    /\ uiPc = "ready"
    /\ \E expr \in UIInputs :
          /\ cronInput' = expr
          /\ updateResults(expr)
    /\ UNCHANGED <<timezone, uiPc>>
    /\ UNCHANGED <<parseVars, runVars, cronVars, chmodVars, ipVars>>

\* the click listener of an example button: cron is its data-cron
OnExample ==
    /\ uiPc = "ready"
    /\ \E cron \in UIInputs :
          /\ cronInput' = cron
          /\ updateResults(cron)
    /\ UNCHANGED <<timezone, uiPc>>
    /\ UNCHANGED <<parseVars, runVars, cronVars, chmodVars, ipVars>>

\* the change listener of #timezone-select: with a schedule in currentParsed
\* its runs are listed again for the zone now selected
OnTimezoneChange ==
    /\ uiPc = "ready"
    /\ \E tz \in Timezones :
          /\ timezone' = tz
          /\ dom' = IF currentParsed.isNull
                    THEN dom
                    ELSE [dom EXCEPT !.nextRunsList =
                              updateNextRuns(currentParsed.parsed, tz)]
    /\ UNCHANGED <<cronInput, currentParsed, updated, uiPc>>
    /\ UNCHANGED <<parseVars, runVars, cronVars, chmodVars, ipVars>>

NextUI ==
    \/ DOMContentLoaded
    \/ OnInput
    \/ OnUseExpression
    \/ OnExample
    \/ OnTimezoneChange

SpecUI == InitUI /\ [][NextUI]_vars

-----------------------------------------------------------------------------
(* Properties of normalizeExpression and parseCronExpression *)

\* the input trimmed and in lower case
Key == toLowerCase(trim(exprIn))

IsAlias == \E e \in SPECIAL_STRINGS : e[1] = Key

AliasValue == (CHOOSE e \in SPECIAL_STRINGS : e[1] = Key)[2]

\* the maximal runs of non-blank characters of s, from left to right
RunStarts(s) ==
    {i \in 1..Len(s) : s[i] \notin WhiteSpace
                         /\ (i = 1 \/ s[i - 1] \in WhiteSpace)}
RunEnd(s, i) ==
    CHOOSE j \in i..Len(s) :
        /\ \A k \in i..j : s[k] \notin WhiteSpace
        /\ (j = Len(s) \/ s[j + 1] \in WhiteSpace)
Runs(s) ==
    LET starts == ascending(RunStarts(s))
    IN  [k \in 1..Len(starts) |-> SubSeq(s, starts[k], RunEnd(s, starts[k]))]

\* the number of fields of the input: five for an alias
FieldCount == IF IsAlias THEN 5 ELSE Len(Runs(exprIn))

\* the fields parseCronExpression has to parse
FieldTokens == IF IsAlias THEN Runs(AliasValue) ELSE Runs(normalizeExpression(JsString(exprIn)).str)

\* C14: parseCronExpression returns only for an expression of exactly five
\* tokens; for any other token count N it throws the error "Expected 5
\* fields, got N" (N being 1 for a blank input, whose split is one empty
\* token); when it returns, token i was parsed as field i of FIELD_NAMES.
C14_FiveFieldsOrError ==
    cronPc = "parsed" =>
        /\ cronOut.kind = "returned" => FieldCount = 5
        /\ FieldCount # 5 =>
             /\ cronOut.kind = "threw"
             /\ cronOut.error.template = "Expected 5 fields, got"
             /\ cronOut.error.val = (IF FieldCount = 0 THEN 1 ELSE FieldCount)
        /\ cronOut.kind = "returned" =>
             \A i \in 1..5 :
                cronOut.parsed[FIELD_NAMES[i]]
                    = parseField(FieldTokens[i], FIELD_NAMES[i])

\* some field of the five-token expression e makes parseField throw
SomeFieldThrows(e) ==
    \E n \in {normalizeExpression(JsString(e))} :
        /\ n.type = "string"
        /\ Len(Runs(n.str)) = 5
        /\ \E i \in 1..5 :
              parseField(Runs(n.str)[i], FIELD_NAMES[i]).kind = "threw"

\* C15: when parseField throws for any one of the five fields, the whole
\* updateResults call fails; and after an updateResults call that failed,
\* currentParsed is null, whatever schedule was stored before the call.
C15_FailedParseStoresNull ==
    /\ (updated.outcome # "none" /\ SomeFieldThrows(updated.expr))
            => updated.outcome = "threw"
    /\ updated.outcome = "threw" => currentParsed.isNull

\* an updateResults call failed on a field of the fifth position, and the
\* error is on show
C15_Witness ==
    /\ updated.outcome = "threw"
    /\ updated.expr = <<"0", " ", "0", " ", "*", " ", "*", " ", "8">>
    /\ SomeFieldThrows(updated.expr)
    /\ currentParsed.isNull
    /\ ~dom.errorHidden
    /\ dom.errorText.field = "dayOfWeek"

\* a lower-case string without blanks at either end
IsLowerTrimmed(str) ==
    /\ \A i \in 1..Len(str) : str[i] \notin DOMAIN LowerOf
    /\ str = <<>> \/ (str[1] \notin WhiteSpace /\ str[Len(str)] \notin WhiteSpace)

\* C16: normalizeExpression returns the five-field string of an alias
\* exactly when the trimmed, lower-cased input is one of the seven aliases;
\* for every other input it returns a lower-case, trimmed string.
C16_AliasIffTableKey ==
    cronPc = "normalized" =>
        /\ IsAlias => normOut = JsString(AliasValue)
        /\ ~IsAlias => (normOut.type = "string" /\ IsLowerTrimmed(normOut.str))

\* C17: normalizeExpression applied to its own result gives that result.
C17_NormalizeIdempotent == cronPc = "twice" => normTwice = normOut

MonthNumber(t) == (CHOOSE i \in 2..13 : MONTH_ABBR[i] = t) - 1
DayNumber(t)   == (CHOOSE i \in 1..7 : DAY_ABBR[i] = t) - 1

\* C18: in a five-field expression the first three fields come out of
\* normalizeExpression as they went in (in lower case), and a month or day
\* name that is the whole fourth or fifth field comes out as its number.
C18_NamesOnlyInMonthAndDow ==
    (cronPc = "normalized" /\ ~IsAlias /\ Len(Runs(exprIn)) = 5
        /\ normOut.type = "string") =>
        LET ins  == Runs(toLowerCase(exprIn))
            outs == Runs(normOut.str)
        IN  /\ Len(outs) = 5
            /\ \A i \in 1..3 : outs[i] = ins[i]
            /\ \A i \in 4..5 :
                 /\ (\E m \in 2..13 : MONTH_ABBR[m] = ins[i])
                        => outs[i] = toStr(MonthNumber(ins[i]))
                 /\ (\E d \in 1..7 : DAY_ABBR[d] = ins[i])
                        => outs[i] = toStr(DayNumber(ins[i]))

-----------------------------------------------------------------------------
(* Properties of getNextRuns *)

\* C1: with both day fields restricted, an examined candidate whose minute,
\* hour and month match and whose day of month OR day of week matches has
\* been appended to runs.
C1_EitherDayFieldSuffices ==
    (/\ iterations > 0
     /\ ~parsed.dayOfMonth.isWildcard /\ ~parsed.dayOfWeek.isWildcard
     /\ arrIncludes(parsed.minute.values, cand.minute)
     /\ arrIncludes(parsed.hour.values, cand.hour)
     /\ arrIncludes(parsed.month.values, cand.month)
     /\ \/ arrIncludes(parsed.dayOfMonth.values, cand.day)
        \/ arrIncludes(parsed.dayOfWeek.values, cand.dow))
    => (Len(runs) > 0 /\ runs[Len(runs)] = cand)

\* the calendar time of d as one tuple, and the order of two such tuples
stamp(d) == <<d.year, d.month, d.day, d.hour, d.minute, d.second>>
Before(d, e) ==
    \E k \in 1..6 :
        /\ stamp(d)[k] < stamp(e)[k]
        /\ \A j \in 1..(k - 1) : stamp(d)[j] = stamp(e)[j]

\* C20: the list getNextRuns builds and returns is strictly increasing in
\* time, so it holds no instant twice, and it is never longer than count.
C20_RunsStrictlyIncreasing ==
    /\ \A i \in 1..(Len(runs) - 1) : Before(runs[i], runs[i + 1])
    /\ \A i, j \in 1..Len(runs) : i # j => runs[i] # runs[j]
    /\ Len(runs) <= count

\* getNextRuns returned two runs, the second in the year after the first
C20_Witness ==
    /\ grPc = "returned"
    /\ Len(runs) = 2
    /\ count = 2
    /\ runs[1].year + 1 = runs[2].year


\* the schedule asks for the 31st of February
IsFeb31 == parsed.dayOfMonth.values = <<31>> /\ parsed.month.values = <<2>>

\* C19: every call of getNextRuns returns; it never examines more than
\* maxIterations candidate minutes; it returns with count runs or with the
\* horizon exhausted; and for the 31st of February it returns the empty
\* list after maxIterations candidates.
C19_ReturnsWithinHorizon ==
    /\ [](iterations <= maxIterations)
    /\ [](grPc = "returned" =>
            (Len(runs) = count \/ iterations = maxIterations))
    /\ []((grPc = "returned" /\ IsFeb31) =>
            (runs = <<>> /\ iterations = maxIterations))
    /\ <>(grPc = "returned")

\* the search for the 31st of February returned empty-handed at the horizon
C19_Witness ==
    /\ grPc = "returned"
    /\ IsFeb31
    /\ runs = <<>>
    /\ iterations = maxIterations

\* the days before month m in a common year
DaysBeforeMonth == <<0, 31, 59, 90, 120, 151, 181, 212, 243, 273, 304, 334>>

\* the number of the calendar day of d, counted from 1 January of year 0
DayCount(d) ==
    LET y == d.year
        leapDays == ((y - 1) \div 4) - ((y - 1) \div 100) + ((y - 1) \div 400)
        leap == (y % 4 = 0 /\ y % 100 # 0) \/ y % 400 = 0
    IN  365 * y + leapDays + DaysBeforeMonth[d.month]
            + (IF leap /\ d.month > 2 THEN 1 ELSE 0) + d.day - 1

\* the number of the minute of d on the same scale
MinuteOf(d) == (DayCount(d) * 24 + d.hour) * 60 + d.minute

\* the week day of d, 0 for Sunday
WeekDayOf(d) == DayCount(d) % 7

\* C21: the first candidate getNextRuns examines is the start instant cut
\* to its whole minute plus one minute, and every returned instant is a
\* whole minute strictly later than the start instant, so that the start
\* minute is never returned
C21_StartsAtNextMinute ==
    /\ (grPc = "loop" /\ iterations = 0) =>
           date.second = 0 /\ MinuteOf(date) = MinuteOf(now) + 1
    /\ iterations >= 1 =>
           cand.second = 0 /\ MinuteOf(cand) = MinuteOf(now) + iterations
    /\ \A i \in 1..Len(runs) :
           /\ runs[i].second = 0
           /\ MinuteOf(runs[i]) > MinuteOf(now)
           /\ runs[i] # setSecondsZero(now)

\* a call started exactly on a minute its schedule matches has returned,
\* and its first run is the minute after
C21_Witness ==
    /\ grPc = "returned"
    /\ now.second = 0
    /\ pushes(parsed, now)
    /\ Len(runs) >= 1
    /\ MinuteOf(runs[1]) = MinuteOf(now) + 1

\* whether the list vals holds the number n
Holds(vals, n) == \E k \in 1..Len(vals) : vals[k] = n

\* whether the minute, the hour and the month of d are in the schedule p
TimeMatches(p, d) ==
    /\ Holds(p.minute.values, d.minute)
    /\ Holds(p.hour.values, d.hour)
    /\ Holds(p.month.values, d.month)

BothDaysWild == parsed.dayOfMonth.isWildcard /\ parsed.dayOfWeek.isWildcard

\* whether this step is a round of the loop
IsRound == grPc = "loop" /\ iterations' = iterations + 1

\* the round has examined the next of the consecutive minutes after now
NextMinuteExamined ==
    /\ cand'.second = 0
    /\ MinuteOf(cand') = MinuteOf(now) + iterations'
    /\ cand'.dow = WeekDayOf(cand')

\* C22: with both day fields wildcards, each round examines the next of
\* the consecutive minutes after the start and appends it to the runs
\* exactly when its minute, hour and month are in the schedule, and the
\* call returns only with count runs or after maxIterations candidates:
\* the runs are the first matching candidates, none wrong, none skipped
C22_WildDaysFirstMatches ==
    /\ []((BothDaysWild /\ grPc = "returned") =>
             /\ Len(runs) <= count
             /\ Len(runs) = count \/ iterations = maxIterations)
    /\ [][(BothDaysWild /\ IsRound) =>
             /\ NextMinuteExamined
             /\ runs' = IF TimeMatches(parsed, cand')
                        THEN Append(runs, cand')
                        ELSE runs]_vars

\* a returned call with both day fields wildcards that examined a
\* candidate it did not return before it had count runs
C22_Witness ==
    /\ grPc = "returned"
    /\ BothDaysWild
    /\ Len(runs) = count
    /\ iterations > Len(runs)
    /\ ~TimeMatches(parsed, firstCandidate(now))

\* exactly one of the two day fields of the schedule is a wildcard
OneDayWild == parsed.dayOfMonth.isWildcard # parsed.dayOfWeek.isWildcard

\* whether the restricted one of the two day fields of p holds d's value
RestrictedDayHolds(p, d) ==
    IF p.dayOfMonth.isWildcard
    THEN Holds(p.dayOfWeek.values, WeekDayOf(d))
    ELSE Holds(p.dayOfMonth.values, d.day)

\* C23: with exactly one of day-of-month and day-of-week restricted, a
\* candidate whose minute, hour and month match is returned exactly when
\* the restricted field holds its day; the wildcard field excludes nothing
C23_OneRestrictedDayDecides ==
    [][(OneDayWild /\ IsRound) =>
          /\ NextMinuteExamined
          /\ runs' = IF /\ TimeMatches(parsed, cand')
                        /\ RestrictedDayHolds(parsed, cand')
                     THEN Append(runs, cand')
                     ELSE runs]_vars

\* a call for 0 0 * * 1 has returned the midnight of a Monday, a day of
\* the month that no schedule names
C23_Witness ==
    /\ grPc = "returned"
    /\ parsed.dayOfMonth.isWildcard
    /\ ~parsed.dayOfWeek.isWildcard
    /\ runs = <<cand>>
    /\ WeekDayOf(cand) = 1
    /\ cand.day = 3

\* the schedule parseCronExpression returns for the alias @yearly
YearlySchedule ==
    parseCronExpression(<<"@", "y", "e", "a", "r", "l", "y">>).parsed

\* C24: for the schedule parsed from @yearly, getNextRuns with count n
\* returns n instants, the i-th being 00:00 on 1 January of the i-th year
\* after the year of the start instant
C24_YearlyReturnsEachYear ==
    (grPc = "returned" /\ parsed = YearlySchedule) =>
        /\ Len(runs) = count
        /\ \A i \in 1..Len(runs) :
               /\ runs[i].year = now.year + i
               /\ runs[i].month = 1
               /\ runs[i].day = 1
               /\ runs[i].hour = 0
               /\ runs[i].minute = 0
               /\ runs[i].second = 0

\* the last week day the step term t is claimed to reach: b for a base
\* a-b, and 6 for a bare base (7 where the base itself is 7)
DowStepEnd(t) ==
    IF IsRange(StepBase(t)) THEN parseInt(split(StepBase(t), "-")[2]).val
    ELSE IF parseInt(StepBase(t)).val = 7 THEN 7
    ELSE 6

\* C25: for dayOfWeek a single step term with a bare integer or a range as
\* its base yields exactly start, start + s, ... within 0..6 ("1/2" yields
\* 1, 3, 5 and "1/6" yields 1), with Sunday (0) only where the base starts
\* at 0 or names 7
C25_DowStepWithinWeek ==
    (/\ Done
     /\ fieldName = "dayOfWeek"
     /\ ~includes(field, ",")
     /\ IsStepTerm(field)
     /\ StepBase(field) # <<"*">>) =>
        /\ returned
        /\ SameList(pfResult.values,
                    ascending(Progression(StepStart(field, fieldName),
                                          DowStepEnd(field),
                                          StepOf(field), fieldName)))

-----------------------------------------------------------------------------
(* Properties of the page *)

\* what currentParsed holds after parsing text afresh: null for a blank
\* text and for one parseCronExpression throws on
FreshParse(text) ==
    IF trim(text) = <<>> THEN JsNull
    ELSE CHOOSE c \in { IF r.kind = "returned" THEN Schedule(r.parsed)
                        ELSE JsNull : r \in {parseCronExpression(text)} } :
             TRUE

\* the runs listed are those of the schedule s for the zone selected
ListsRunsOf(s) ==
    IF s.isNull
    THEN dom.nextRunsHidden \/ dom.nextRunsList = NoRuns
    ELSE ~dom.nextRunsHidden /\ dom.nextRunsList = [of |-> s, tz |-> timezone]

\* C26: once the page is ready, after any input and timezone-change events
\* currentParsed and the runs listed are those of the text now in the
\* input: no schedule of an earlier text is kept, so that after the text is
\* cleared a timezone change lists no runs of the expression before
C26_ParsedFollowsInput ==
    uiPc = "ready" =>
        \E fresh \in {FreshParse(cronInput)} :
            /\ currentParsed = fresh
            /\ ListsRunsOf(fresh)

\* C27: after every updateResults call exactly one of the error banner and
\* the description is visible: after a successful call the error is hidden
\* and the description, the next runs and the breakdown are shown, after a
\* failing call the error is shown and the other three are hidden
C27_ErrorOrResultsShown ==
    /\ updated.outcome # "none" => dom.errorHidden # dom.descriptionHidden
    /\ updated.outcome = "returned" =>
           /\ dom.errorHidden
           /\ ~dom.descriptionHidden
           /\ ~dom.nextRunsHidden
           /\ ~dom.breakdownHidden
    /\ updated.outcome = "threw" =>
           /\ ~dom.errorHidden
           /\ dom.descriptionHidden
           /\ dom.nextRunsHidden
           /\ dom.breakdownHidden

\* a failing call came after a successful one: the runs of the earlier
\* schedule are still in the list, hidden, and the error is shown
C27_Witness ==
    /\ updated.outcome = "threw"
    /\ dom.nextRunsList # NoRuns
    /\ dom.nextRunsHidden
    /\ ~dom.errorHidden

-----------------------------------------------------------------------------
(* getNextRuns and its timezone argument *)

\* the k-th candidate of a call made at the instant start
RECURSIVE CandidateAt(_, _)
CandidateAt(start, k) ==
    IF k = 1 THEN firstCandidate(start)
    ELSE addMinute(CandidateAt(start, k - 1))

\* the runs a call for the schedule p made at start holds after k rounds,
\* computed from p and start alone
RECURSIVE RunsWithin(_, _, _)
RunsWithin(p, start, k) ==
    IF k = 0 THEN <<>>
    ELSE CHOOSE after \in
             { IF pushes(p, c) THEN Append(before, c) ELSE before :
                 before \in {RunsWithin(p, start, k - 1)},
                 c \in {CandidateAt(start, k)} } : TRUE

\* C28: the timezone argument of getNextRuns has no influence on the
\* instants it returns: after any number of rounds the runs are those
\* determined by the schedule and the start instant alone, and the call
\* returns on the same test, so two calls that differ only in timezone
\* return the same list
C28_TimezoneIgnored ==
    grPc \in {"loop", "returned"} =>
        /\ runs = RunsWithin(parsed, now, iterations)
        /\ grPc = "returned" =>
               Len(runs) = count \/ iterations = maxIterations

\* a call with the timezone UTC has returned a run it found after
\* a candidate it did not return
C28_Witness ==
    /\ grPc = "returned"
    /\ timezoneArg = "UTC"
    /\ Len(runs) = 1
    /\ iterations = 2
    /\ runs[1].hour = 23

-----------------------------------------------------------------------------
(* The chmod helper: computeOctalFromChecks and parseOctal *)

\* what parseOctal returns, and what it throws
OctalReturned(special, u, g, o, bits) ==
    [kind |-> "returned", message |-> "", specialDigit |-> special,
     u |-> u, g |-> g, o |-> o, bits |-> bits]
OctalThrew(message) ==
    [kind |-> "threw", message |-> message, specialDigit |-> 0,
     u |-> 0, g |-> 0, o |-> 0, bits |-> <<>>]

\* clampDigit(n) returns n: n is an integer of 0..7
clampDigit(n) == n \in 0..7

\* tripletToDigit(r, w, x)
tripletToDigit(r, w, x) ==
    (IF r THEN 4 ELSE 0) + (IF w THEN 2 ELSE 0) + (IF x THEN 1 ELSE 0)

\* !!(d & mask) for mask 4, 2 or 1
bitSet(d, mask) == (d \div mask) % 2 = 1

\* digitToTriplet(d)
digitToTriplet(d) ==
    [r |-> bitSet(d, 4), w |-> bitSet(d, 2), x |-> bitSet(d, 1)]

\* `${n}` for a digit n
digitString(n) == <<Digits[n + 1]>>

\* computeOctalFromChecks(c)
computeOctalFromChecks(c) ==
    LET special == (IF c["u-s"] THEN 4 ELSE 0) + (IF c["g-s"] THEN 2 ELSE 0)
                       + (IF c["o-t"] THEN 1 ELSE 0)
        u == tripletToDigit(c["u-r"], c["u-w"], c["u-x"])
        g == tripletToDigit(c["g-r"], c["g-w"], c["g-x"])
        o == tripletToDigit(c["o-r"], c["o-w"], c["o-x"])
        base == digitString(u) \o digitString(g) \o digitString(o)
    IN  IF special # 0 THEN digitString(special) \o base ELSE base

\* s.replace(/^0+/, '0'): a leading run of zeros becomes one zero
collapseZeros(s) ==
    IF s = <<>> \/ s[1] # "0" THEN s
    ELSE LET run == CHOOSE n \in 1..Len(s) :
                        /\ \A i \in 1..n : s[i] = "0"
                        /\ (n = Len(s) \/ s[n + 1] # "0")
         IN  <<"0">> \o SubSeq(s, run + 1, Len(s))

\* s.replace(/^0/, ''): one leading zero is dropped
dropZero(s) == IF s # <<>> /\ s[1] = "0" THEN Tail(s) ELSE s

\* digits.match(/^[0-7]{3,4}$/)
matchesOctal(digits) ==
    /\ Len(digits) \in {3, 4}
    /\ \A i \in 1..Len(digits) : IsDigit(digits[i]) /\ DigitVal(digits[i]) <= 7

\* the bits parseOctal returns for the digits special, u, g and o
octalBits(special, u, g, o) ==
    LET uu == digitToTriplet(u)
        gg == digitToTriplet(g)
        oo == digitToTriplet(o)
    IN  [id \in CheckIds |->
            CASE id = "u-r" -> uu.r
              [] id = "u-w" -> uu.w
              [] id = "u-x" -> uu.x
              [] id = "u-s" -> bitSet(special, 4)
              [] id = "g-r" -> gg.r
              [] id = "g-w" -> gg.w
              [] id = "g-x" -> gg.x
              [] id = "g-s" -> bitSet(special, 2)
              [] id = "o-r" -> oo.r
              [] id = "o-w" -> oo.w
              [] id = "o-x" -> oo.x
              [] id = "o-t" -> bitSet(special, 1)]

\* parseOctal(octalRaw)
parseOctal(raw) ==
    LET s == trim(raw)
        cleaned == collapseZeros(s)
        digits == IF Len(dropZero(cleaned)) # 0 THEN dropZero(cleaned)
                  ELSE cleaned
        arr == [i \in 1..Len(digits) |-> DigitVal(digits[i])]
        four == Len(arr) = 4
        special == IF four THEN arr[1] ELSE 0
        u == IF four THEN arr[2] ELSE arr[1]
        g == IF four THEN arr[3] ELSE arr[2]
        o == IF four THEN arr[4] ELSE arr[3]
    IN  IF s = <<>>
        THEN OctalThrew("Enter an octal permission like 755, 0644 or 4755")
        ELSE IF ~matchesOctal(digits)
        THEN OctalThrew("Octal must be 3 or 4 digits (0-7 only)")
        ELSE IF ~(clampDigit(special) /\ clampDigit(u) /\ clampDigit(g)
                    /\ clampDigit(o))
        THEN OctalThrew("Digits must be 0-7")
        ELSE OctalReturned(special, u, g, o, octalBits(special, u, g, o))

\* octal strings typed into #chmod-octal: 755, 0644, 4755, 000, 077, 00755,
\* 644 between blanks, the empty string, 8, 75 and 7x5
TypedOctals ==
    { <<"7", "5", "5">>, <<"0", "6", "4", "4">>, <<"4", "7", "5", "5">>,
      <<"0", "0", "0">>, <<"0", "7", "7">>, <<"0", "0", "7", "5", "5">>,
      <<" ", "6", "4", "4", " ">>, <<>>, <<"8">>, <<"7", "5">>,
      <<"7", "x", "5">> }

\* either a state of the checkboxes or a typed octal string
InitChmod ==
    /\ \/ /\ chmodPc = "checks"
          /\ checks \in [CheckIds -> BOOLEAN]
          /\ octalRaw = <<>>
       \/ /\ chmodPc = "typed"
          /\ checks = <<>>
          /\ octalRaw \in TypedOctals
    /\ octalParsed = NoOctal
    /\ ParseIdle
    /\ RunsIdle
    /\ CronIdle
    /\ UIIdle
    /\ IpIdle

\* updateUIFromChecks: the octal string of the checkboxes goes into
\* #chmod-octal
CallComputeOctal ==
    /\ chmodPc = "checks"
    /\ octalRaw' = computeOctalFromChecks(checks)
    /\ chmodPc' = "computed"
    /\ UNCHANGED <<checks, octalParsed>>
    /\ UNCHANGED <<parseVars, runVars, cronVars, uiVars, ipVars>>

\* applyOctalInput: parseOctal on the value of #chmod-octal
CallParseOctal ==
    /\ chmodPc \in {"computed", "typed"}
    /\ octalParsed' = parseOctal(octalRaw)
    /\ chmodPc' = IF chmodPc = "typed" THEN "parsedTyped" ELSE "parsed"
    /\ UNCHANGED <<checks, octalRaw>>
    /\ UNCHANGED <<parseVars, runVars, cronVars, uiVars, ipVars>>

NextChmod == CallComputeOctal \/ CallParseOctal

SpecChmod == InitChmod /\ [][NextChmod]_vars

\* C29: for every state c of the twelve checkboxes
\* parseOctal(computeOctalFromChecks(c)) returns, and its bits are c; this
\* includes the states with no user bit and no special bit, whose octal
\* strings start with 0 ("000", "077")
C29_OctalRoundTrip ==
    chmodPc = "parsed" =>
        /\ octalParsed.kind = "returned"
        /\ octalParsed.bits = checks

-----------------------------------------------------------------------------
(* The IP lookup page: overlapping lookup() calls *)

\* the most lookup() calls followed on one page
MaxLookups == 3

\* addresses typed or pasted into #ip-lookup-input: 1.1, 8.8 between
\* blanks, nothing, and x, which is no address; the caller's address is 9.9
IpInputs ==
    { <<"1", ".", "1">>, <<" ", "8", ".", "8", " ">>, <<>>, <<"x">> }
MyIp == <<"9", ".", "9">>

\* isIpLikely(input): a colon or a dot, or eight and more hex digits
isIpLikely(input) ==
    /\ input # <<>>
    /\ \/ includes(input, ":")
       \/ includes(input, ".")
       \/ /\ Len(input) >= 8
          /\ \A i \in 1..Len(input) :
                 input[i] \in {"0", "1", "2", "3", "4", "5", "6", "7", "8",
                               "9", "a", "b", "c", "d", "e", "f", "A", "B",
                               "C", "D", "E", "F"}

\* the catch block and the finally block of lookup: showError(message),
\* showLoading(false)
lookupFailed(d, message) ==
    [d EXCEPT !.errorHidden = FALSE, !.errorText = message,
              !.loadingHidden = TRUE]

\* lookup(ipInput, { updateUrl }) up to its first await: clearError, the
\* results hidden, showLoading(true), then either a request is sent or the
\* text is refused, which runs the catch and finally blocks at once
lookup(arg, updateUrl) ==
    LET ip == trim(arg)
        cleared == [ipDom EXCEPT !.errorHidden = TRUE, !.errorText = "",
                                 !.resultsHidden = TRUE,
                                 !.loadingHidden = FALSE]
    IN  /\ Len(ipLookups) < MaxLookups
        /\ IF ip = <<>>
           THEN /\ ipLookups' = Append(ipLookups,
                       [ip |-> ip, awaits |-> "me", updateUrl |-> updateUrl,
                        outcome |-> "pending"])
                /\ ipDom' = cleared
           ELSE IF ~isIpLikely(ip)
           THEN /\ ipLookups' = Append(ipLookups,
                       [ip |-> ip, awaits |-> "nothing",
                        updateUrl |-> updateUrl, outcome |-> "failed"])
                /\ ipDom' = lookupFailed(cleared,
                       "Please enter a valid IPv4 or IPv6 address")
           ELSE /\ ipLookups' = Append(ipLookups,
                       [ip |-> ip, awaits |-> "lookup",
                        updateUrl |-> updateUrl, outcome |-> "pending"])
                /\ ipDom' = cleared

\* the page as served, with or without an ip parameter in its URL
InitIp ==
    /\ ipInput = <<>>
    /\ ipLookups = <<>>
    /\ ipDom = IpPageServed
    /\ ipUrl \in {<<>>, <<"1", ".", "1">>}
    /\ ipTimers = 0
    /\ ipPc = "loading"
    /\ ParseIdle
    /\ RunsIdle
    /\ CronIdle
    /\ UIIdle
    /\ ChmodIdle

\* DOMContentLoaded: the lookup of the ip parameter, or of the caller
IpContentLoaded ==
    /\ ipPc = "loading"
    /\ ipPc' = "ready"
    /\ IF ipUrl # <<>>
       THEN ipInput' = ipUrl /\ lookup(ipUrl, FALSE)
       ELSE ipInput' = ipInput /\ lookup(<<>>, TRUE)
    /\ UNCHANGED <<ipUrl, ipTimers>>
    /\ UNCHANGED <<parseVars, runVars, cronVars, uiVars, chmodVars>>

\* a click on #ip-lookup-btn, or Enter in the input, with text typed in it
OnLookupClick ==
    /\ ipPc = "ready"
    /\ \E text \in IpInputs :
          /\ ipInput' = text
          /\ lookup(text, TRUE)
    /\ UNCHANGED <<ipUrl, ipTimers, ipPc>>
    /\ UNCHANGED <<parseVars, runVars, cronVars, uiVars, chmodVars>>

\* the paste listener: the text lands in the input and a timer is set
OnPaste ==
    /\ ipPc = "ready"
    /\ Len(ipLookups) + ipTimers < MaxLookups
    /\ \E text \in IpInputs : ipInput' = text
    /\ ipTimers' = ipTimers + 1
    /\ UNCHANGED <<ipLookups, ipDom, ipUrl, ipPc>>
    /\ UNCHANGED <<parseVars, runVars, cronVars, uiVars, chmodVars>>

\* a paste timer fires: lookup of what the input holds by now
PasteTimerFires ==
    /\ ipTimers > 0
    /\ ipTimers' = ipTimers - 1
    /\ lookup(ipInput, TRUE)
    /\ UNCHANGED <<ipInput, ipUrl, ipPc>>
    /\ UNCHANGED <<parseVars, runVars, cronVars, uiVars, chmodVars>>

\* the answer to fetchJson(`${API_BASE}/me`) of a lookup arrives: with an
\* address the input is set to it and the lookup request is sent
MeResponds ==
    \E i \in 1..Len(ipLookups), ok \in BOOLEAN :
        /\ ipLookups[i].awaits = "me"
        /\ IF ok
           THEN /\ ipInput' = MyIp
                /\ ipLookups' = [ipLookups EXCEPT ![i].ip = MyIp,
                                                  ![i].awaits = "lookup"]
                /\ ipDom' = ipDom
           ELSE /\ ipInput' = ipInput
                /\ ipLookups' = [ipLookups EXCEPT ![i].awaits = "nothing",
                                                  ![i].outcome = "failed"]
                /\ ipDom' = lookupFailed(ipDom,
                                "Could not determine your current IP")
        /\ UNCHANGED <<ipUrl, ipTimers, ipPc>>
        /\ UNCHANGED <<parseVars, runVars, cronVars, uiVars, chmodVars>>

\* the answer to the lookup request of a lookup arrives: its data are put
\* into the results, or its error is shown; then showLoading(false)
LookupResponds ==
    \E i \in 1..Len(ipLookups), status \in {200, 429, 500} :
        /\ ipLookups[i].awaits = "lookup"
        /\ IF status = 200
           THEN /\ ipDom' = [ipDom EXCEPT !.resultsIp = ipLookups[i].ip,
                                          !.resultsHidden = FALSE,
                                          !.loadingHidden = TRUE]
                /\ ipUrl' = IF ipLookups[i].updateUrl THEN trim(ipInput)
                            ELSE ipUrl
                /\ ipLookups' = [ipLookups EXCEPT ![i].awaits = "nothing",
                                                  ![i].outcome = "shown"]
           ELSE /\ ipDom' = lookupFailed(ipDom,
                       IF status = 429
                       THEN "Rate limit hit (24 lookups / 24h). Please try again later."
                       ELSE "Lookup failed")
                /\ ipUrl' = ipUrl
                /\ ipLookups' = [ipLookups EXCEPT ![i].awaits = "nothing",
                                                  ![i].outcome = "failed"]
        /\ UNCHANGED <<ipInput, ipTimers, ipPc>>
        /\ UNCHANGED <<parseVars, runVars, cronVars, uiVars, chmodVars>>

NextIp ==
    \/ IpContentLoaded
    \/ OnLookupClick
    \/ OnPaste
    \/ PasteTimerFires
    \/ MeResponds
    \/ LookupResponds

SpecIp == InitIp /\ [][NextIp]_vars

\* a lookup whose answer has not arrived
InFlight(l) == l.awaits # "nothing"

\* every lookup started has ended and no paste timer is left
Settled ==
    /\ ipLookups # <<>>
    /\ ipTimers = 0
    /\ \A i \in 1..Len(ipLookups) : ~InFlight(ipLookups[i])

\* C30: with overlapping lookups, in whatever order their answers arrive,
\* the loading indicator is not hidden while a lookup is in flight, and
\* once all have ended the results show the data of the lookup started
\* last, if that one got data
C30_LastLookupShown ==
    /\ (\E i \in 1..Len(ipLookups) : InFlight(ipLookups[i])) =>
           ~ipDom.loadingHidden
    /\ (Settled /\ ipLookups[Len(ipLookups)].outcome = "shown") =>
           /\ ~ipDom.resultsHidden
           /\ ipDom.resultsIp = ipLookups[Len(ipLookups)].ip

====
